---- MODULE Spec2Model ----
(***************************************************************************)
(* Model of src/lib/story_engine.py: the StoryEngine session state machine *)
(* (start_session / submit_cue / get_state), the turn (_advance_story),    *)
(* the response resolver (_invoke_model, _parse_model_json,                *)
(* _mock_payload), the history policy (_truncate_history) and the          *)
(* continuity tracker (_enrich_visual_prompt, _update_scene_state).        *)
(*                                                                         *)
(* Text is modelled by TLA+ strings; Python values coming out of           *)
(* json.loads are tagged records [t |-> type, v |-> value].                *)
(* Wall-clock values (StorySegment.timestamp, the time part of a log       *)
(* entry id and its timestamp) are not part of the model.                  *)
(*                                                                         *)
(* A value that is used more than once is handed to an operator as an     *)
(* argument (TLC evaluates an argument once, a LET definition at each     *)
(* use), which is why some functions of the source are split into a       *)
(* chain of operators.                                                     *)
(***************************************************************************)
EXTENDS Integers, Sequences, FiniteSets, TLC

\* ---------------------------------------------------------------- bounds
\* Number of concurrent callers (asyncio tasks) of the engine.
NumCallers == 2
\* Calls issued in a run of an engine without a client (fallback only).
MaxCallsOffline == 8
\* Calls issued in a run of an engine with a client configured.
MaxCallsLive == 2

Callers == 1..NumCallers

\* ------------------------------------------------------ string helpers
\* Python: kw in s
Contains(s, kw) ==
    \E i \in 1..(Len(s) - Len(kw) + 1) : SubSeq(s, i, i + Len(kw) - 1) = kw

\* str.lower() on the ASCII letters.
LowerMap ==
    [A |-> "a", B |-> "b", C |-> "c", D |-> "d", E |-> "e", F |-> "f", G |-> "g",
     H |-> "h", I |-> "i", J |-> "j", K |-> "k", L |-> "l", M |-> "m", N |-> "n",
     O |-> "o", P |-> "p", Q |-> "q", R |-> "r", S |-> "s", T |-> "t", U |-> "u",
     V |-> "v", W |-> "w", X |-> "x", Y |-> "y", Z |-> "z"]

LowerChar(c) == IF c \in DOMAIN LowerMap THEN LowerMap[c] ELSE c

\* Python: s.lower(): every upper-case letter is replaced, the text
\* between two of them is kept.
RECURSIVE LowerFrom(_, _, _)
LowerFrom(s, ups, i) ==
    IF \A j \in ups : j < i THEN SubSeq(s, i, Len(s))
    ELSE LET j == CHOOSE k \in ups : k >= i /\ \A m \in ups : m >= i => k <= m
         IN  SubSeq(s, i, j - 1) \o LowerChar(SubSeq(s, j, j)) \o LowerFrom(s, ups, j + 1)

Lower(s) ==
    LowerFrom(s, {i \in 1..Len(s) : SubSeq(s, i, i) \in DOMAIN LowerMap}, 1)

IsSpace(c) == c \in {" ", "\n", "\t", "\r"}

\* Python: s.strip()
Strip(s) ==
    LET n == Len(s)
        solid(i) == ~IsSpace(SubSeq(s, i, i))
    IN  IF n = 0 THEN ""
        ELSE IF solid(1) /\ solid(n) THEN s
        ELSE IF \A i \in 1..n : ~solid(i) THEN ""
        ELSE LET lo == CHOOSE i \in 1..n : solid(i) /\ \A j \in 1..(i - 1) : ~solid(j)
                 hi == CHOOSE i \in 1..n : solid(i) /\ \A j \in (i + 1)..n : ~solid(j)
             IN  SubSeq(s, lo, hi)

\* Python: s[:n] for n >= 0
Prefix(s, n) == SubSeq(s, 1, IF Len(s) < n THEN Len(s) ELSE n)

\* Python: xs[-n:] for n > 0
LastN(xs, n) == IF Len(xs) <= n THEN xs ELSE SubSeq(xs, Len(xs) - n + 1, Len(xs))

RECURSIVE JoinFrom(_, _, _)
JoinFrom(sep, parts, i) ==
    IF i > Len(parts) THEN ""
    ELSE IF i = Len(parts) THEN parts[i]
    ELSE parts[i] \o sep \o JoinFrom(sep, parts, i + 1)

\* Python: sep.join(parts)
Join(sep, parts) == JoinFrom(sep, parts, 1)

\* Python: [x for x in xs if P(x)], order kept
RECURSIVE FilterFrom(_, _, _)
FilterFrom(xs, keep, i) ==
    IF i > Len(xs) THEN <<>>
    ELSE (IF xs[i] \in keep THEN <<xs[i]>> ELSE <<>>) \o FilterFrom(xs, keep, i + 1)

Filter(xs, keep) == FilterFrom(xs, keep, 1)

\* ------------------------------------------------------- static data
STORY_THEMES == <<
    [id |-> "pixar_portal", label |-> "Pixar Portal",
     description |-> "Wholesome, cinematic adventures with plush lighting and sweeping camera moves.",
     base_prompt |-> "Pixar style cinematic frame, global illumination, volumetric god rays, soft depth of field, playful energy.",
     accent_color |-> "#f4b860", icon |-> "U+1F3AC"],
    [id |-> "lego_flux", label |-> "Lego Flux",
     description |-> "Stop-motion brick worlds where everything clicks, pops, and snaps into place.",
     base_prompt |-> "LEGO brick universe, macro cinematography, vibrant plastic sheen, dynamic dioramas, tilt shift focus.",
     accent_color |-> "#ff4d6d", icon |-> "U+1F9F1"],
    [id |-> "minecraft_echo", label |-> "Minecraft Echo",
     description |-> "Voxel folk tales, shader-lit landscapes, and redstone-powered drama.",
     base_prompt |-> "Minecraft voxel scene, path-traced lighting, saturated pixel shaders, cinematic camera, volumetric fog.",
     accent_color |-> "#7ae582", icon |-> "U+26CF"],
    [id |-> "spicy_nebula", label |-> "Spicy Nebula",
     description |-> "Hyper-saturated soap opera energy with neon chroma trails and dramatic closeups.",
     base_prompt |-> "NSFW adult content, explicit nudity, naked bodies, sensual intimate scenes, neon pulp sci-fi, anamorphic lens flares, hypersaturated lava lamps, smoky silhouettes, moody chiaroscuro, erotic aesthetic.",
     accent_color |-> "#ff6ad5", icon |-> "U+1F336"] >>

DEFAULT_CUES == << "Introduce a new character", "Switch camera angle",
                   "Trigger a cosmic glitch", "Reveal a hidden motive" >>

max_segments == 6

\* The cue of the initial turn of start_session.
EstablishingCue == "Kick off the broadcast with an establishing shot."

\* -------------------------------------------------- Python values
\* Values produced by json.loads, tagged by their Python type.
PyStr(s)   == [t |-> "str",  v |-> s]
PyInt(n)   == [t |-> "int",  v |-> n]
PyList(xs) == [t |-> "list", v |-> xs]
PyDict(d)  == [t |-> "dict", v |-> d]
PyNone     == [t |-> "none", v |-> 0]

\* Python truthiness (bool(x)).
Truthy(x) ==
    CASE x.t = "str"  -> x.v /= ""
      [] x.t = "int"  -> x.v /= 0
      [] x.t = "list" -> x.v /= <<>>
      [] x.t = "dict" -> DOMAIN x.v /= {}
      [] OTHER        -> FALSE

\* Python: a or b
PyOr(a, b) == IF Truthy(a) THEN a ELSE b

\* Python: d.get(k) on a dict
DictGet(d, k) == IF k \in DOMAIN d.v THEN d.v[k] ELSE PyNone

\* DEFAULT_CUES.copy() as a Python list of str
DefaultCuesList == PyList([i \in 1..Len(DEFAULT_CUES) |-> PyStr(DEFAULT_CUES[i])])

\* Python: len(x); HasLen is FALSE where len() raises TypeError.
HasLen(x) == x.t \in {"str", "list", "dict"}
PyLen(x) == IF x.t = "dict" THEN Cardinality(DOMAIN x.v) ELSE Len(x.v)

\* Slice4 without the cut: the cues are taken as they come.
SliceAll(x) == x

\* Python: x[:4]; CanSlice is FALSE where slicing raises.
CanSlice(x) == x.t \in {"str", "list"}
Slice4(x) == [t |-> x.t, v |-> SubSeq(x.v, 1, IF Len(x.v) < 4 THEN Len(x.v) ELSE 4)]

\* ------------------------------------------------------- the session
\* StorySession(theme=theme)
NoSession == [exists |-> FALSE]

NewSession(theme) ==
    [exists |-> TRUE,
     theme |-> theme,
     segments |-> <<>>,
     prompt_log |-> <<>>,
     summary |-> "",
     last_visual_prompt |-> "",
     last_cues |-> DefaultCuesList,
     current_subjects |-> <<>>,
     current_location |-> "",
     current_style |-> ""]

\* StorySegment(cue, narrative, visual_prompt)
StorySegment(cue, narrative, visual_prompt) ==
    [cue |-> cue, narrative |-> narrative, visual_prompt |-> visual_prompt]

Narratives(segs) == [i \in 1..Len(segs) |-> segs[i].narrative]

\* The registry records with the given id, in registry order.
Matching(theme_id) == SelectSeq(STORY_THEMES, LAMBDA theme : theme.id = theme_id)

\* What _resolve_theme hands back when it raises.
NoTheme == [id |-> "", label |-> "", description |-> "", base_prompt |-> "",
            accent_color |-> "", icon |-> ""]

\* _resolve_theme falling back to the first theme of the registry.
ResolveOrFirst(theme_id) ==
    IF Matching(theme_id) /= <<>>
    THEN [raised |-> FALSE, theme |-> Head(Matching(theme_id))]
    ELSE [raised |-> FALSE, theme |-> STORY_THEMES[1]]

\* StoryEngine._resolve_theme: the first matching record; raised stands
\* for ValueError("Unknown theme ...").
_resolve_theme(theme_id) ==
    IF Matching(theme_id) /= <<>>
    THEN [raised |-> FALSE, theme |-> Head(Matching(theme_id))]
    ELSE [raised |-> TRUE, theme |-> NoTheme]

\* _append_log on a rolling log that keeps its latest 24 entries.
AppendLogRolling(s, role, text) ==
    [s EXCEPT !.prompt_log =
        LastN(Append(@, [id |-> Len(s.prompt_log), role |-> role, text |-> text]), 24)]

\* StoryEngine._append_log: the entry id keeps the log-length part.
_append_log(s, role, text) ==
    [s EXCEPT !.prompt_log =
        Append(@, [id |-> Len(s.prompt_log), role |-> role, text |-> text])]

\* StoryEngine._story_text
_story_text(s) == Strip(Join("\n\n", Narratives(s.segments)))

\* _truncate_history keeping the oldest segments instead of the latest.
TruncateKeepOldest(s) ==
    IF Len(s.segments) <= max_segments
    THEN [s EXCEPT !.summary = Strip(Join("\n\n", Narratives(s.segments)))]
    ELSE [s EXCEPT !.summary = Join(" ", Narratives(SubSeq(s.segments, 1, max_segments - 2))),
                   !.segments = SubSeq(s.segments, 1, max_segments)]

\* _truncate_history whose summary of an evicting turn takes all the
\* retained narratives, the two most recent included.
TruncateSummaryAll(s) ==
    IF Len(s.segments) <= max_segments
    THEN [s EXCEPT !.summary = _story_text(s)]
    ELSE [s EXCEPT !.summary = Join(" ", Narratives(LastN(s.segments, max_segments))),
                   !.segments = LastN(s.segments, max_segments)]

\* StoryEngine._truncate_history
_truncate_history(s) ==
    IF Len(s.segments) <= max_segments
    THEN [s EXCEPT !.summary = _story_text(s)]
    ELSE LET trimmed == LastN(s.segments, max_segments)
         IN  [s EXCEPT !.summary =
                          Join(" ", Narratives(SubSeq(trimmed, 1, Len(trimmed) - 2))),
                       !.segments = trimmed]

\* "- <narrative>" for each of the given segments, one per line.
Bullets(recent) == Join("\n", [i \in 1..Len(recent) |-> "- " \o recent[i].narrative])

\* Python: text or default
StrOr(text, default) == IF text /= "" THEN text ELSE default

\* The continuity block of _compose_prompt.
ContinuityInfo(s) ==
    (IF s.current_subjects /= <<>>
     THEN "Current characters/subjects: " \o Join(", ", s.current_subjects) \o "\n"
     ELSE "")
    \o (IF s.current_location /= ""
        THEN "Current location/setting: " \o s.current_location \o "\n"
        ELSE "")
    \o (IF s.current_style /= ""
        THEN "Current visual style: " \o s.current_style \o "\n"
        ELSE "")

\* StoryEngine._compose_prompt
_compose_prompt(s, cue, initial) ==
    (IF initial
     THEN "Open a brand new broadcast. Establish WHO is present and WHERE they are from the very first frame."
     ELSE "Continue the live broadcast. MAINTAIN CONTINUITY by re-stating subjects and location.\n"
          \o ContinuityInfo(s))
    \o "\n"
    \o "Theme context: " \o s.theme.description \o "\n"
    \o "Visual DNA: " \o s.theme.base_prompt \o "\n\n"
    \o "Condensed memory: " \o StrOr(s.summary, "Story not summarized yet.") \o "\n"
    \o "Recent beats:\n" \o StrOr(Bullets(LastN(s.segments, 3)), "No scenes yet.") \o "\n\n"
    \o "Upcoming cue from the user: " \o cue \o "\n\n"
    \o "Return strict JSON with keys narrative, visual_prompt, action_cues (exactly 4 strings).\n"
    \o "narrative = 2-4 energetic sentences referencing motion and dialogue.\n"
    \o "visual_prompt = 80-120 words. MUST include:\n"
    \o "  - WHO/WHAT (specific subject/character)\n"
    \o "  - WHERE (specific location/background)\n"
    \o "  - Camera angle (wide shot, close-up, tracking, etc.)\n"
    \o "  - Lighting/atmosphere details\n"
    \o "  - Movement/action\n"
    \o "action_cues = 4 short imperative options (<8 words) that advance the story meaningfully."

\* ------------------------------------------- deterministic fallback
verbs == << "glides", "sparks", "warps", "vibrates", "orbits", "sprouts" >>
adjectives == << "neon", "lofi", "crystalline", "anodized", "dreamy", "chaotic" >>

\* random.seed(f"{cue}-{theme['id']}") followed by choice(verbs),
\* choice(adjectives), sample(DEFAULT_CUES, 4): the indices the seeded
\* generator yields, tabulated for the cues and themes of the model.
SeededDraw(cue, theme_id) ==
    CASE cue = "Kick off the broadcast with an establishing shot." /\ theme_id = "pixar_portal"
            -> [verb |-> 2, adjective |-> 2, order |-> <<2, 3, 4, 1>>]
      [] cue = "Kick off the broadcast with an establishing shot." /\ theme_id = "lego_flux"
            -> [verb |-> 1, adjective |-> 5, order |-> <<1, 3, 2, 4>>]
      [] cue = "Kick off the broadcast with an establishing shot." /\ theme_id = "minecraft_echo"
            -> [verb |-> 2, adjective |-> 1, order |-> <<4, 3, 1, 2>>]
      [] cue = "Kick off the broadcast with an establishing shot." /\ theme_id = "spicy_nebula"
            -> [verb |-> 2, adjective |-> 5, order |-> <<2, 1, 4, 3>>]
      [] cue = "Introduce a new character" /\ theme_id = "pixar_portal"
            -> [verb |-> 1, adjective |-> 4, order |-> <<3, 1, 4, 2>>]
      [] cue = "Introduce a new character" /\ theme_id = "lego_flux"
            -> [verb |-> 1, adjective |-> 1, order |-> <<1, 2, 4, 3>>]
      [] cue = "Introduce a new character" /\ theme_id = "minecraft_echo"
            -> [verb |-> 4, adjective |-> 6, order |-> <<1, 2, 3, 4>>]
      [] cue = "Introduce a new character" /\ theme_id = "spicy_nebula"
            -> [verb |-> 1, adjective |-> 4, order |-> <<4, 3, 1, 2>>]
      [] cue = "Summon the Robot alien hero" /\ theme_id = "pixar_portal"
            -> [verb |-> 6, adjective |-> 4, order |-> <<2, 3, 1, 4>>]
      [] cue = "Summon the Robot alien hero" /\ theme_id = "lego_flux"
            -> [verb |-> 2, adjective |-> 1, order |-> <<1, 2, 3, 4>>]
      [] cue = "Summon the Robot alien hero" /\ theme_id = "minecraft_echo"
            -> [verb |-> 4, adjective |-> 6, order |-> <<3, 2, 4, 1>>]
      [] cue = "Summon the Robot alien hero" /\ theme_id = "spicy_nebula"
            -> [verb |-> 6, adjective |-> 6, order |-> <<2, 1, 3, 4>>]

\* StoryEngine._mock_payload
_mock_payload(cue, theme) ==
    LET draw == SeededDraw(cue, theme.id)
        narrative == "The camera " \o verbs[draw.verb] \o " through a "
                     \o adjectives[draw.adjective] \o " corridor as the cue '" \o cue
                     \o "' reverberates across the " \o theme.label \o " channel."
        remix == theme.base_prompt \o " // inspired by cue: " \o cue
        cues == [i \in 1..Len(DEFAULT_CUES) |-> PyStr(DEFAULT_CUES[draw.order[i]])]
    IN  [narrative |-> PyStr(narrative),
         visual_prompt |-> PyStr(remix),
         action_cues |-> PyList(cues)]

\* ------------------------------------------------ response resolver
\* The text returned by the capability, described by what the resolver
\* can see of it: whether it holds a ``` fence ("none", "open" when the
\* fence is not closed, "closed"), what json.loads makes of the whole
\* text and of the first fenced block (Undecodable: JSONDecodeError).
Undecodable == [t |-> "undecodable", v |-> 0]

\* Stands for "no value" where an exception left the resolver.
NoPayload == [narrative |-> PyNone, visual_prompt |-> PyNone, action_cues |-> PyNone]

RawText(fence, whole, block) == [fence |-> fence, whole |-> whole, block |-> block]

\* StoryEngine._parse_model_json.  raised: an exception leaves the
\* function (AttributeError / TypeError on a value of the wrong type).
_parse_model_json(raw, cue, theme) ==
    LET candidate == IF raw.fence = "closed" THEN raw.block ELSE raw.whole
        data == candidate
    IN  IF data = Undecodable
        THEN [raised |-> FALSE, payload |-> _mock_payload(cue, theme)]
        ELSE IF data.t /= "dict"
        THEN [raised |-> TRUE, payload |-> NoPayload]
        ELSE
          LET narrative == PyOr(PyOr(DictGet(data, "narrative"), DictGet(data, "story")),
                                PyStr(cue))
              visual_prompt == PyOr(DictGet(data, "visual_prompt"), PyStr(theme.base_prompt))
              cues0 == PyOr(DictGet(data, "action_cues"), DefaultCuesList)
              canPad == cues0.t = "list"
              cues1 == IF PyLen(cues0) < 4
                       THEN PyList(SubSeq(cues0.v \o DefaultCuesList.v, 1, 4))
                       ELSE cues0
          IN  IF \/ ~HasLen(cues0)
                 \/ (PyLen(cues0) < 4 /\ ~canPad)
                 \/ ~CanSlice(cues0)
              THEN [raised |-> TRUE, payload |-> NoPayload]
              ELSE [raised |-> FALSE,
                    payload |-> [narrative |-> narrative,
                                 visual_prompt |-> visual_prompt,
                                 action_cues |-> Slice4(cues1)]]

\* StoryEngine._invoke_model with a client, from the capability's answer on.
_invoke_model(resp, cue, theme) ==
    IF resp.raises THEN [raised |-> TRUE, payload |-> NoPayload]
    ELSE _parse_model_json(resp.raw, cue, theme)

\* OrFallback that answers a failure with the payload the resolver makes
\* of an empty object: the cue as narrative, the theme's base prompt, the
\* default cues.
OrCueEcho(r, cue, theme) ==
    IF r.raised
    THEN [narrative |-> PyStr(cue), visual_prompt |-> PyStr(theme.base_prompt),
          action_cues |-> DefaultCuesList]
    ELSE r.payload

\* except Exception: model_payload = self._mock_payload(cue, session.theme)
OrFallback(r, cue, theme) == IF r.raised THEN _mock_payload(cue, theme) ELSE r.payload

\* try: _invoke_model(...) except Exception: ...
ResolvePayload(resp, cue, theme) == OrFallback(_invoke_model(resp, cue, theme), cue, theme)

\* --------------------------------------------- continuity tracker
cinematic_keywords == << "cinematic", "volumetric", "depth of field", "lighting" >>

\* any(kw in low for kw in keywords)
AnyIn(keywords, low) == \E i \in 1..Len(keywords) : Contains(low, keywords[i])

\* _enrich_visual_prompt, "Add Wan-style cinematic keywords if not present"
AddCinematic(enriched) ==
    IF ~AnyIn(cinematic_keywords, Lower(enriched))
    THEN enriched \o ", cinematic composition with volumetric lighting and shallow depth of field"
    ELSE enriched

\* _enrich_visual_prompt, "Ensure theme style is present"
AddThemeStyle(enriched, theme) ==
    IF theme.base_prompt /= "" /\ Len(enriched) < 100
    THEN enriched \o ". " \o theme.base_prompt
    ELSE enriched

\* AddQualityTags that appends the tags whatever the prompt holds.
AddQualityTagsAlways(enriched) == enriched \o ", highly detailed, 4K quality"

\* _enrich_visual_prompt, "Add quality tags for Wan model"
AddQualityTags(enriched) ==
    IF ~AnyIn(<<"4k", "8k">>, Lower(enriched))
    THEN enriched \o ", highly detailed, 4K quality"
    ELSE enriched

\* _enrich_visual_prompt with a cap of 100 characters.
EnrichShortCap(prompt, theme) ==
    Prefix(AddQualityTags(AddThemeStyle(AddCinematic(prompt), theme)), 100)

\* StoryEngine._enrich_visual_prompt (its session argument is not used)
_enrich_visual_prompt(prompt, theme) ==
    Prefix(AddQualityTags(AddThemeStyle(AddCinematic(prompt), theme)), 300)

subject_indicators == << "character", "person", "figure", "hero", "protagonist",
                         "robot", "alien", "creature" >>
location_indicators == << "room", "corridor", "space", "chamber", "hall",
                          "landscape", "city", "planet", "ship" >>
style_words == << "neon", "dark", "bright", "foggy", "misty", "ethereal", "dramatic" >>

Elems(xs) == {xs[i] : i \in 1..Len(xs)}
FirstChars(words) == {SubSeq(words[i], 1, 1) : i \in 1..Len(words)}

\* The words that occur in text at position i.
FoundAt(vocab, starts, text, i, c) ==
    IF c \in starts
    THEN {w \in vocab : /\ SubSeq(w, 1, 1) = c
                        /\ i + Len(w) - 1 <= Len(text)
                        /\ SubSeq(text, i, i + Len(w) - 1) = w}
    ELSE {}

FoundSet(vocab, starts, text) ==
    UNION {FoundAt(vocab, starts, text, i, SubSeq(text, i, i)) : i \in 1..Len(text)}

\* Python: [w for w in words if w in text], in the order of words.  The
\* text is scanned once: at each position only the words that begin with
\* the character found there are compared.
Found(words, text) == Filter(words, FoundSet(Elems(words), FirstChars(words), text))

\* AddSubjects keeping the first three entries instead of the last three.
AddSubjectsKeepFirst(current_subjects, present) ==
    LET all == current_subjects \o Filter(present, Elems(present) \ Elems(current_subjects))
    IN  SubSeq(all, 1, IF Len(all) < 3 THEN Len(all) ELSE 3)

\* "for indicator in subject_indicators: ... append", then [-3:]
AddSubjects(current_subjects, present) ==
    LastN(current_subjects \o Filter(present, Elems(present) \ Elems(current_subjects)), 3)

\* FirstLocation that forgets the location when no term is present.
LocationOrNone(current_location, present) ==
    IF present /= <<>> THEN present[1] ELSE ""

\* "for indicator in location_indicators: ... break"
FirstLocation(current_location, present) ==
    IF present /= <<>> THEN present[1] ELSE current_location

\* "if found_styles: ... ', '.join(found_styles[:2])"
JoinStyles(current_style, found_styles) ==
    IF found_styles /= <<>>
    THEN Join(", ", SubSeq(found_styles, 1, IF Len(found_styles) < 2 THEN 1 ELSE 2))
    ELSE current_style

SceneFrom(s, combined) ==
    [s EXCEPT !.current_subjects = AddSubjects(@, Found(subject_indicators, combined)),
              !.current_location = FirstLocation(@, Found(location_indicators, combined)),
              !.current_style = JoinStyles(@, Found(style_words, combined))]

\* StoryEngine._update_scene_state
_update_scene_state(s, visual_prompt, narrative) ==
    SceneFrom(s, Lower(visual_prompt \o " " \o narrative))

\* ------------------------------------------------------- the turn
\* StoryEngine._advance_story up to the await of _invoke_model: the cue
\* and prompt log entries.
LogPrompt(s, cue, initial) == _append_log(s, "prompt", _compose_prompt(s, cue, initial))

\* AdvanceBegin that clears last_visual_prompt before the capability is
\* awaited.
AdvanceBeginClearing(s, cue, initial) ==
    LogPrompt([_append_log(s, "cue", cue) EXCEPT !.last_visual_prompt = ""], cue, initial)

AdvanceBegin(s, cue, initial) == LogPrompt(_append_log(s, "cue", cue), cue, initial)

\* model_payload["narrative"].strip() / ["visual_prompt"].strip() raise
\* AttributeError on a value that is not a str.
PayloadUsable(payload) == payload.narrative.t = "str" /\ payload.visual_prompt.t = "str"

\* _advance_story: the model and visual_prompt log entries.
LogResult(s, narrative, visual_prompt) ==
    _append_log(_append_log(s, "model", narrative), "visual_prompt", visual_prompt)

\* _advance_story: the segment is appended, last_visual_prompt and
\* last_cues are set, the history is truncated.
StoreSegment(s, cue, narrative, visual_prompt, cues) ==
    LogResult(
        _truncate_history(
            [s EXCEPT !.segments = Append(@, StorySegment(cue, narrative, visual_prompt)),
                      !.last_visual_prompt = visual_prompt,
                      !.last_cues = Slice4(cues)]),
        narrative, visual_prompt)

\* _advance_story: enrichment and continuity from the stripped texts.
Continue(s, cue, narrative, visual_prompt_raw, cues) ==
    StoreSegment(_update_scene_state(s, visual_prompt_raw, narrative),
                 cue, narrative,
                 _enrich_visual_prompt(visual_prompt_raw, s.theme),
                 cues)

\* StoryEngine._advance_story from the payload on, for a usable payload.
AdvanceFinish(s, cue, payload) ==
    Continue(s, cue,
             Strip(payload.narrative.v),
             Strip(payload.visual_prompt.v),
             PyOr(payload.action_cues, DefaultCuesList))

\* The view returned by _advance_story.
TurnView(s) ==
    [theme |-> s.theme,
     story_text |-> _story_text(s),
     prompt_log |-> s.prompt_log,
     cues |-> s.last_cues,
     visual_prompt |-> s.last_visual_prompt]

\* StoryEngine.get_state; Null stands for None.
Null == [theme |-> "null"]

get_state(s) ==
    IF ~s.exists THEN Null
    ELSE [theme |-> s.theme,
          story_text |-> _story_text(s),
          prompt_log |-> s.prompt_log,
          cues |-> s.last_cues,
          visual_prompt |-> StrOr(s.last_visual_prompt, s.theme.base_prompt)]

\* ------------------------------------------------------- inputs
\* Theme ids passed to start_session: two of the registry, one unknown.
ThemeIds == {"lego_flux", "spicy_nebula", "vaporwave"}

\* Cues passed to submit_cue.
Cues == {"Introduce a new character", "Summon the Robot alien hero"}

\* What the generation capability does when invoked: it raises, or it
\* returns a text.
Raises == [raises |-> TRUE, raw |-> RawText("none", Undecodable, Undecodable)]
Returns(raw) == [raises |-> FALSE, raw |-> raw]

CompliantPrompt ==
    "Tracking shot of the robot crossing the bright hall of the ship, cinematic volumetric lighting, shallow depth of field, 4K"

LongCompliantPrompt ==
    "Low angle tracking shot from the ship ramp toward the great hall, an alien creature walking ahead, cinematic lighting with volumetric haze, shallow depth of field, slow push in, warm rim light on wet stone floor, drifting dust in the beams, long shadows, rich texture on every surface, steady motion, film grain, anamorphic bokeh, 8k"

Responses == <<
    \* 1: network / provider error
    Raises,
    \* 2: prose, not JSON
    Returns(RawText("none", Undecodable, Undecodable)),
    \* 3: a JSON array
    Returns(RawText("none", PyList(<<PyInt(1)>>), Undecodable)),
    \* 4: fenced JSON object, padded text, short prompt, two cues
    Returns(RawText("closed", Undecodable,
        PyDict([narrative |-> PyStr("  A hero enters the dark city.\n"),
                visual_prompt |-> PyStr(" Wide shot of a hero in a foggy city "),
                action_cues |-> PyList(<<PyStr("Run"), PyStr("Hide")>>)]))),
    \* 5: narrative is a number
    Returns(RawText("none",
        PyDict([narrative |-> PyInt(7),
                visual_prompt |-> PyStr("A figure in a misty chamber")]), Undecodable)),
    \* 6: story instead of narrative, visual_prompt is a list
    Returns(RawText("none",
        PyDict([story |-> PyStr("The alien waits."),
                visual_prompt |-> PyList(<<PyStr("close-up")>>)]), Undecodable)),
    \* 7: compliant prompt, five cues
    Returns(RawText("none",
        PyDict([narrative |-> PyStr("The robot strides through the bright hall."),
                visual_prompt |-> PyStr(CompliantPrompt),
                action_cues |-> PyList(<<PyStr("Jump"), PyStr("Duck"), PyStr("Sing"),
                                         PyStr("Wait"), PyStr("Leave")>>)]), Undecodable)),
    \* 8: an object without any of the keys, empty action_cues
    Returns(RawText("none", PyDict([action_cues |-> PyList(<<>>)]), Undecodable)),
    \* 9: action_cues is a string
    Returns(RawText("none", PyDict([action_cues |-> PyStr("abcdef")]), Undecodable)),
    \* 10: an unclosed fence in front of the object
    Returns(RawText("open", Undecodable, Undecodable)),
    \* 11: compliant prompt of more than 300 characters, ship before hall
    Returns(RawText("none",
        PyDict([narrative |-> PyStr("The alien creature leaves the ship and walks into the hall."),
                visual_prompt |-> PyStr(LongCompliantPrompt),
                action_cues |-> PyList(<<PyStr("Follow"), PyStr("Wait"), PyStr("Call out"),
                                         PyStr("Turn back")>>)]), Undecodable)) >>

\* ------------------------------------------------------- state
VARIABLES
    client,     \* self._client is set (a generation capability is configured)
    session,    \* self._session
    locked,     \* self._lock is held
    waiters,    \* callers queued on self._lock, first come first served
    pc,         \* per caller: "idle", "wait" (on the lock), "invoke" (awaiting the capability)
    call,       \* per caller: the call in progress
    out,        \* what the last step handed back to its caller, if anything
    callsLeft   \* calls still to be issued in this run

vars == <<client, session, locked, waiters, pc, call, out, callsLeft>>

NoCall == [op |-> "none", arg |-> ""]
NoView == [theme |-> "none"]
\* The last step returned nothing: its caller is queued or suspended.
NoOut  == [op |-> "none", arg |-> "", kind |-> "none", view |-> NoView]

Init ==
    /\ client \in BOOLEAN
    /\ session = NoSession
    /\ locked = FALSE
    /\ waiters = <<>>
    /\ pc = [p \in Callers |-> "idle"]
    /\ call = [p \in Callers |-> NoCall]
    /\ out = NoOut
    /\ callsLeft = IF client THEN MaxCallsLive ELSE MaxCallsOffline

\* A lock that never makes a caller wait.
CanAcquireAlways == TRUE

\* asyncio.Lock.acquire returns at once when the lock is free and nobody
\* is queued; otherwise the caller queues.
CanAcquire == ~locked /\ waiters = <<>>

\* The cue of a call's turn.
TurnCue(c) == IF c.op = "start_session" THEN EstablishingCue ELSE c.arg

\* Leave that releases the lock only when the call returns a view.
LeaveHoldingOnError(p, c, kind, view) ==
    /\ out' = [op |-> c.op, arg |-> c.arg, kind |-> kind, view |-> view]
    /\ locked' = (kind /= "view")
    /\ pc' = [pc EXCEPT ![p] = "idle"]
    /\ call' = [call EXCEPT ![p] = NoCall]

\* The call of p ends with a view (kind "view") or an exception (kind
\* names it): the lock is released on the way out of "async with".
Leave(p, c, kind, view) ==
    /\ out' = [op |-> c.op, arg |-> c.arg, kind |-> kind, view |-> view]
    /\ locked' = FALSE
    /\ pc' = [pc EXCEPT ![p] = "idle"]
    /\ call' = [call EXCEPT ![p] = NoCall]

\* _advance_story returns the view of the updated session.
ReturnView(p, c, s) == session' = s /\ Leave(p, c, "view", TurnView(s))

\* Complete that asks the capability a second time when the first
\* answer led to the fallback payload.
CompleteRetrying(p, c, s, payload) ==
    IF client /\ payload = _mock_payload(TurnCue(c), s.theme)
    THEN /\ session' = s
         /\ locked' = TRUE
         /\ pc' = [pc EXCEPT ![p] = "retry"]
         /\ call' = call
         /\ out' = NoOut
    ELSE IF PayloadUsable(payload)
    THEN ReturnView(p, c, AdvanceFinish(s, TurnCue(c), payload))
    ELSE session' = s /\ Leave(p, c, "AttributeError", NoView)

\* _advance_story once the payload is resolved.
Complete(p, c, s, payload) ==
    IF PayloadUsable(payload)
    THEN ReturnView(p, c, AdvanceFinish(s, TurnCue(c), payload))
    ELSE session' = s /\ Leave(p, c, "AttributeError", NoView)

\* Invoke whose fallback draws its verb from a generator that is not
\* seeded anew: the draw moves on with every turn of the session.
InvokeUnseeded(p, c, s) ==
    IF client
    THEN /\ session' = s
         /\ locked' = TRUE
         /\ pc' = [pc EXCEPT ![p] = "invoke"]
         /\ call' = [call EXCEPT ![p] = c]
         /\ out' = NoOut
    ELSE Complete(p, c, s,
             [_mock_payload(TurnCue(c), s.theme) EXCEPT
                 !.narrative = PyStr("The camera "
                                     \o verbs[(Len(s.segments) % Len(verbs)) + 1]
                                     \o " through a corridor.")])

\* _advance_story after the prompt is logged: without a client
\* _invoke_model returns the fallback payload without suspending; with a
\* client the caller is suspended in run_in_executor, holding the lock.
Invoke(p, c, s) ==
    IF client
    THEN /\ session' = s
         /\ locked' = TRUE
         /\ pc' = [pc EXCEPT ![p] = "invoke"]
         /\ call' = [call EXCEPT ![p] = c]
         /\ out' = NoOut
    ELSE Complete(p, c, s, _mock_payload(TurnCue(c), s.theme))

\* _advance_story from its start.
RunTurn(p, c, s0, initial) == Invoke(p, c, AdvanceBegin(s0, TurnCue(c), initial))

\* Tune where the new session inherits the continuity subjects of the
\* session it replaces.
TuneKeepingScene(p, c, resolved) ==
    IF resolved.raised
    THEN session' = session /\ Leave(p, c, "UnknownTheme", NoView)
    ELSE RunTurn(p, c,
                 _append_log([NewSession(resolved.theme) EXCEPT
                                 !.current_subjects =
                                     IF session.exists THEN session.current_subjects
                                     ELSE <<>>],
                     "system",
                     "Tuned into " \o resolved.theme.label \o " on Interdimensional Cable."),
                 TRUE)

\* start_session under the lock, from the result of _resolve_theme on.
Tune(p, c, resolved) ==
    IF resolved.raised
    THEN session' = session /\ Leave(p, c, "UnknownTheme", NoView)
    ELSE RunTurn(p, c,
                 _append_log(NewSession(resolved.theme), "system",
                     "Tuned into " \o resolved.theme.label \o " on Interdimensional Cable."),
                 TRUE)

\* Enter where submit_cue, finding no session, starts one on the first
\* theme instead of raising.
EnterAutoStart(p, c) ==
    IF c.op = "start_session"
    THEN Tune(p, c, _resolve_theme(c.arg))
    ELSE IF ~session.exists
         THEN RunTurn(p, c, NewSession(STORY_THEMES[1]), FALSE)
         ELSE RunTurn(p, c, session, FALSE)

\* The body of start_session / submit_cue under the lock.
Enter(p, c) ==
    IF c.op = "start_session"
    THEN Tune(p, c, _resolve_theme(c.arg))
    ELSE IF ~session.exists
         THEN session' = session /\ Leave(p, c, "NoActiveSession", NoView)
         ELSE RunTurn(p, c, session, FALSE)

\* A caller issues a call: it takes the lock, or queues for it.
Issue(p, c) ==
    /\ callsLeft > 0
    /\ callsLeft' = callsLeft - 1
    /\ IF CanAcquire
       THEN Enter(p, c) /\ UNCHANGED waiters
       ELSE /\ waiters' = Append(waiters, p)
            /\ pc' = [pc EXCEPT ![p] = "wait"]
            /\ call' = [call EXCEPT ![p] = c]
            /\ out' = NoOut
            /\ UNCHANGED <<session, locked>>
    /\ UNCHANGED client

\* StoryEngine.start_session
StartSession(p) ==
    /\ pc[p] = "idle"
    /\ \E theme_id \in ThemeIds : Issue(p, [op |-> "start_session", arg |-> theme_id])

\* StoryEngine.submit_cue
SubmitCue(p) ==
    /\ pc[p] = "idle"
    /\ \E cue \in Cues : Issue(p, [op |-> "submit_cue", arg |-> cue])

\* The lock is handed to the first queued caller, which then runs its body.
LockGranted(p) ==
    /\ pc[p] = "wait"
    /\ ~locked
    /\ waiters /= <<>> /\ Head(waiters) = p
    /\ waiters' = Tail(waiters)
    /\ Enter(p, call[p])
    /\ UNCHANGED <<client, callsLeft>>

\* The capability answers the suspended caller, whose turn runs to its end.
CapabilityReturns(p) ==
    /\ pc[p] = "invoke"
    /\ \E i \in 1..Len(Responses) :
          Complete(p, call[p], session,
                   ResolvePayload(Responses[i], TurnCue(call[p]), session.theme))
    /\ UNCHANGED <<client, waiters, callsLeft>>

\* StoryEngine.get_state, callable whenever the event loop is free.
GetState ==
    /\ out' = [op |-> "get_state", arg |-> "",
               kind |-> IF session.exists THEN "view" ELSE "null",
               view |-> get_state(session)]
    /\ UNCHANGED <<client, session, locked, waiters, pc, call, callsLeft>>

Next ==
    \/ \E p \in Callers : StartSession(p)
    \/ \E p \in Callers : SubmitCue(p)
    \/ \E p \in Callers : LockGranted(p)
    \/ \E p \in Callers : CapabilityReturns(p)
    \/ GetState

Spec == Init /\ [][Next]_vars

\* The event loop runs a caller that was handed the lock, and the
\* executor brings every invocation of the capability to its end.
\* The part of LockGranted(p) that tells its steps from all other steps
\* of Next: p is first in the queue of a free lock and leaves the queue.
\* LockGranted(p) is enabled exactly when this is.
Granted(p) ==
    /\ pc[p] = "wait" /\ ~locked
    /\ waiters /= <<>> /\ Head(waiters) = p
    /\ waiters' = Tail(waiters)

\* The part of CapabilityReturns(p) that tells its steps from all other
\* steps of Next: the suspended caller p is resumed and its call ends.
\* CapabilityReturns(p) is enabled exactly when this is.
Returned(p) ==
    /\ pc[p] = "invoke"
    /\ pc' = [pc EXCEPT ![p] = "idle"]

Fairness ==
    \A p \in Callers : WF_waiters(Granted(p)) /\ WF_pc(Returned(p))

FairSpec == Init /\ [][Next]_vars /\ Fairness

\* =================================================== properties
\* The texts of the log entries with the given role, in log order.
RoleTexts(log, role) ==
    LET hits == SelectSeq(log, LAMBDA e : e.role = role)
    IN  [i \in 1..Len(hits) |-> hits[i].text]

Roles(log) == [i \in 1..Len(log) |-> log[i].role]

IsPrefix(xs, ys) == Len(xs) <= Len(ys) /\ SubSeq(ys, 1, Len(xs)) = xs

TurnOps == {"start_session", "submit_cue"}

\* ---------------------------------------------------------------- C1
\* C1: once a session exists, a turn never raises: start_session ends
\* with a view or UnknownTheme, submit_cue with a view or NoActiveSession,
\* whatever the capability answered.  The code lets AttributeError out
\* of _advance_story when narrative or visual_prompt is not a string.
C1_TurnNeverRaises ==
    out.op \in TurnOps => out.kind \in {"view", "UnknownTheme", "NoActiveSession"}

\* ---------------------------------------------------------------- C2
\* C2: while a caller is suspended in its turn, no other caller is in a
\* turn or enters one, and the session changes only when the suspended
\* caller's own turn goes on.
C2_OneTurnAtATime ==
    [][\A p \in Callers :
          pc[p] = "invoke" =>
             /\ \A q \in Callers \ {p} : pc[q] /= "invoke" /\ pc'[q] /= "invoke"
             /\ locked
             /\ (pc'[p] = "invoke" => session' = session)]_vars

\* A second call is queued on the lock while the first awaits the capability.
C2_Witness ==
    \E p, q \in Callers : pc[p] = "invoke" /\ pc[q] = "wait" /\ out.op = "none"

\* ---------------------------------------------------------------- C3
\* C3: the segments are the last max_segments completed turns of the
\* session, in their order: never more than max_segments, exactly
\* max_segments once more turns than that have completed.  (The model
\* entries of prompt_log record the completed turns.)
C3_HistoryBound ==
    session.exists =>
       /\ Len(session.segments) <= max_segments
       /\ (Len(RoleTexts(session.prompt_log, "model")) > max_segments
             => Len(session.segments) = max_segments)
       /\ Narratives(session.segments)
             = LastN(RoleTexts(session.prompt_log, "model"), max_segments)
       /\ [i \in 1..Len(session.segments) |-> session.segments[i].visual_prompt]
             = LastN(RoleTexts(session.prompt_log, "visual_prompt"), max_segments)

\* A turn has returned in a session with more completed turns than max_segments.
C3_Witness ==
    /\ session.exists
    /\ out.op = "submit_cue" /\ out.kind = "view"
    /\ Len(RoleTexts(session.prompt_log, "model")) > max_segments + 1

\* ---------------------------------------------------------------- C4
\* C4: once a turn has evicted a segment, summary is not empty and the
\* narrative evicted last is part of it.  The code builds summary from
\* the retained segments, so the evicted narrative is lost.
C4_EvictedInSummary ==
    (session.exists /\ Len(RoleTexts(session.prompt_log, "model")) > max_segments) =>
       LET done == RoleTexts(session.prompt_log, "model")
       IN  /\ session.summary /= ""
           /\ Contains(session.summary, done[Len(done) - max_segments])

\* ---------------------------------------------------------------- C5
\* C5: last_cues, and the cues of every view handed out, have exactly 4
\* entries.
C5_FourCues ==
    /\ session.exists => PyLen(session.last_cues) = 4
    /\ out.kind = "view" => PyLen(out.view.cues) = 4

\* Turns have returned on answers with two cues (padded), with five
\* (cut) and with a string of six characters (cut).
C5_WitnessPadded ==
    /\ client /\ out.op \in TurnOps /\ out.kind = "view"
    /\ out.view.cues.t = "list"
    /\ out.view.cues.v[1] = PyStr("Run")
    /\ out.view.cues.v[3] = PyStr(DEFAULT_CUES[1])

\* ---------------------------------------------------------------- C6
\* C6: submit_cue without a session fails with NoActiveSession and leaves
\* the engine without a session: get_state still returns null.
C6_NoActiveSession ==
    [][(~session.exists /\ out'.op = "submit_cue") =>
          /\ out'.kind = "NoActiveSession"
          /\ session' = session
          /\ get_state(session') = Null]_vars

C6_Witness == out.op = "submit_cue" /\ out.kind = "NoActiveSession" /\ ~session.exists

\* ---------------------------------------------------------------- C7
\* C7: start_session with an id that is not in the registry fails with
\* UnknownTheme and changes nothing of the session, present or absent.
C7_UnknownTheme ==
    [][(out'.op = "start_session" /\ \A i \in 1..Len(STORY_THEMES) : STORY_THEMES[i].id /= out'.arg)
          => (out'.kind = "UnknownTheme" /\ session' = session)]_vars

\* UnknownTheme was raised on an engine whose session holds segments.
C7_Witness ==
    /\ out.op = "start_session" /\ out.kind = "UnknownTheme"
    /\ session.exists /\ Len(session.segments) >= 2

\* ---------------------------------------------------------------- C8
\* C8: a view returned by get_state is made of completed turns only: its
\* visual_prompt is the one logged last (the theme's base prompt before
\* the first turn completes) and that of the last segment, its
\* story_text joins the narratives logged for the last max_segments
\* completed turns, its cues are the defaults before the first turn
\* completes, and every model entry of its log has its visual_prompt
\* entry; only cue and prompt entries may stand for a turn in flight.
C8_GetStateNotTorn ==
    (out.op = "get_state" /\ out.kind = "view") =>
       LET v == out.view
           done == RoleTexts(v.prompt_log, "model")
           shown == RoleTexts(v.prompt_log, "visual_prompt")
       IN  /\ Len(done) = Len(shown)
           /\ v.visual_prompt = IF shown = <<>> THEN v.theme.base_prompt
                                ELSE shown[Len(shown)]
           /\ v.story_text = Strip(Join("\n\n", LastN(done, max_segments)))
           /\ (done = <<>> => v.cues = DefaultCuesList)
           /\ (session.segments /= <<>> =>
                 session.segments[Len(session.segments)].visual_prompt = v.visual_prompt)
           /\ (session.segments = <<>> => done = <<>>)

\* get_state ran while a submit_cue turn was awaiting the capability.
C8_Witness ==
    /\ out.op = "get_state" /\ out.kind = "view"
    /\ \E p \in Callers : pc[p] = "invoke" /\ call[p].op = "submit_cue"
    /\ Len(session.segments) >= 1
    /\ session.prompt_log[Len(session.prompt_log)].role = "prompt"

\* ---------------------------------------------------------------- C9
\* C9: when no call is in progress, the roles of prompt_log are system
\* followed by cue, prompt, model, visual_prompt for each turn.  A turn
\* that raises (C1) leaves its cue and prompt entries without the rest.
TurnRoles == << "cue", "prompt", "model", "visual_prompt" >>

C9_LogShape ==
    (session.exists /\ \A p \in Callers : pc[p] = "idle") =>
       LET roles == Roles(session.prompt_log)
       IN  /\ Len(roles) >= 1
           /\ (Len(roles) - 1) % 4 = 0
           /\ roles[1] = "system"
           /\ \A i \in 2..Len(roles) : roles[i] = TurnRoles[((i - 2) % 4) + 1]

\* ---------------------------------------------------------------- C10
\* A step in which start_session replaces the session.
ReplacesSession ==
    \/ \E p \in Callers :
          pc[p] /= "invoke" /\ pc'[p] = "invoke" /\ call'[p].op = "start_session"
    \/ ~client /\ out'.op = "start_session" /\ out'.kind = "view"

\* C10: within a session prompt_log only grows at its end: across every
\* step that does not replace the session the old log is a prefix of
\* the new one, history truncation included.
C10_LogAppendOnly ==
    [][(session.exists /\ ~ReplacesSession) =>
          /\ session'.exists
          /\ IsPrefix(session.prompt_log, session'.prompt_log)]_vars

\* The log kept growing across turns that evicted segments.
C10_Witness ==
    /\ session.exists
    /\ Len(session.segments) = max_segments
    /\ Len(session.prompt_log) > 1 + 4 * max_segments

\* ---------------------------------------------------------------- C11
\* The session start_session builds before the capability is asked: a
\* new StorySession with its system, cue and prompt entries.
FreshStart(theme) ==
    AdvanceBegin(_append_log(NewSession(theme), "system",
                     "Tuned into " \o theme.label \o " on Interdimensional Cable."),
                 EstablishingCue, TRUE)

\* The payloads the establishing-shot turn can get on this engine.
StartPayloads(theme) ==
    IF client
    THEN {ResolvePayload(Responses[i], EstablishingCue, theme) : i \in 1..Len(Responses)}
    ELSE {_mock_payload(EstablishingCue, theme)}

\* The sessions start_session leaves on an engine that had no session.
FreshSessions(theme) ==
    {AdvanceFinish(FreshStart(theme), EstablishingCue, payload) :
        payload \in {x \in StartPayloads(theme) : PayloadUsable(x)}}

\* C11: when start_session returns a view, the view's theme is the
\* registry record of the id, the session holds the establishing-shot
\* segment only, its prompt_log is system, cue, prompt, model,
\* visual_prompt, and the whole session is one that start_session leaves
\* on an engine without a previous session: nothing of the replaced
\* session is left.
C11_StartReplaces ==
    (out.op = "start_session" /\ out.kind = "view") =>
       LET hit == Matching(out.arg)
       IN  /\ hit /= <<>>
           /\ out.view.theme = hit[1]
           /\ session.exists /\ session.theme = hit[1]
           /\ Len(session.segments) = 1
           /\ session.segments[1].cue = EstablishingCue
           /\ Roles(session.prompt_log)
                 = << "system", "cue", "prompt", "model", "visual_prompt" >>
           /\ session.summary = session.segments[1].narrative
           /\ session \in FreshSessions(hit[1])

\* start_session returned a view as the fifth or a later call of a run
\* without capability: turns of earlier sessions lie before it.
C11_Witness ==
    /\ ~client /\ out.op = "start_session" /\ out.kind = "view"
    /\ callsLeft <= MaxCallsOffline - 5
    /\ session.exists /\ Len(session.segments) = 1

\* ---------------------------------------------------------------- C12
\* The capability raised, or json.loads cannot decode what the resolver
\* takes from the returned text.
CannotDecode(resp) ==
    \/ resp.raises
    \/ (IF resp.raw.fence = "closed" THEN resp.raw.block ELSE resp.raw.whole) = Undecodable

\* The turn in flight on session s gives, for every answer that cannot
\* be decoded, the fallback payload and the session offline.
FallsBackTo(s, cue, fallback, offline) ==
    \A i \in 1..Len(Responses) :
       CannotDecode(Responses[i]) =>
          /\ ResolvePayload(Responses[i], cue, s.theme) = fallback
          /\ AdvanceFinish(s, cue, ResolvePayload(Responses[i], cue, s.theme)) = offline

\* The session the same turn leaves on an engine without capability:
\* _invoke_model returns _mock_payload at once.
OfflineTurn(s, cue) == AdvanceFinish(s, cue, _mock_payload(cue, s.theme))

\* C12: whenever a turn awaits the capability, each answer that raises
\* or cannot be decoded makes the turn use exactly the fallback payload
\* of its (cue, theme), and end in the session state that the same turn
\* reaches on an engine with no capability configured.
C12_FailureIsFallback ==
    \A p \in Callers :
       pc[p] = "invoke" =>
          FallsBackTo(session, TurnCue(call[p]),
                      _mock_payload(TurnCue(call[p]), session.theme),
                      OfflineTurn(session, TurnCue(call[p])))

\* A submit_cue turn with a capability has returned the view of the
\* fallback payload.
C12_Witness ==
    /\ client /\ out.op = "submit_cue" /\ out.kind = "view"
    /\ session.segments[Len(session.segments)].narrative
          = _mock_payload(out.arg, session.theme).narrative.v
    /\ out.view.cues = _mock_payload(out.arg, session.theme).action_cues

ShowsBaseAndDefaults(view) ==
    /\ Contains(view.visual_prompt, view.theme.base_prompt)
    /\ view.cues.t = "list" /\ Len(view.cues.v) = Len(DEFAULT_CUES)
    /\ {view.cues.v[i] : i \in 1..Len(view.cues.v)}
          = {PyStr(DEFAULT_CUES[i]) : i \in 1..Len(DEFAULT_CUES)}

\* C14: without a capability, the view start_session returns contains
\* the whole base prompt of the theme (enrichment and the cap of 300
\* characters leave it uncut) and its cues are a permutation of the
\* default cues; this holds for the calls of the runs and, computed
\* before the first session, for every theme of the registry.
C14_OfflineStartView ==
    ~client =>
       /\ (out.op = "start_session" /\ out.kind = "view") => ShowsBaseAndDefaults(out.view)
       /\ ~session.exists =>
             \A i \in 1..Len(STORY_THEMES) :
                ShowsBaseAndDefaults(
                    TurnView(OfflineTurn(FreshStart(STORY_THEMES[i]), EstablishingCue)))

\* start_session returned offline a view whose visual prompt was cut at
\* the cap.
C14_Witness ==
    /\ ~client /\ out.op = "start_session" /\ out.kind = "view"
    /\ Len(out.view.visual_prompt) = 300
    /\ Len(session.segments) = 1

\* ---------------------------------------------------------------- C15
\* The sessions in which the turn in flight on s can end, one for each
\* answer of the capability that gives a usable payload.
TurnEnds(s, cue) ==
    {AdvanceFinish(s, cue, payload) :
        payload \in {x \in {ResolvePayload(Responses[i], cue, s.theme) :
                                i \in 1..Len(Responses)} : PayloadUsable(x)}}

\* C15: an engine without capability never invokes one.  A turn that
\* awaits the capability does nothing until the answer is there, and
\* the answer ends the call in the same step: the caller is not
\* suspended a second time, no further prompt is logged, and the call
\* returns the view of the session made from that one answer, the
\* fallback payload if the answer was a failure (or raises, C1).
C15_NoRetry ==
    [][/\ ~client => \A p \in Callers : pc'[p] /= "invoke"
       /\ \A p \in Callers :
             pc[p] = "invoke" =>
                /\ pc'[p] \in {"invoke", "idle"}
                /\ pc'[p] = "invoke" => (session' = session /\ call'[p] = call[p])
                /\ pc'[p] = "idle" =>
                      /\ out'.op = call[p].op /\ out'.arg = call[p].arg
                      /\ out'.kind \in {"view", "AttributeError"}
                      /\ Len(RoleTexts(session'.prompt_log, "prompt"))
                            = Len(RoleTexts(session.prompt_log, "prompt"))
                      /\ out'.kind = "view" =>
                            session' \in TurnEnds(session, TurnCue(call[p]))
                      /\ out'.kind = "AttributeError" => session' = session]_vars

\* The first call of an engine with a capability has returned the view
\* of the fallback payload: one invocation, which failed.
C15_Witness ==
    /\ client /\ callsLeft = MaxCallsLive - 1
    /\ out.op = "start_session" /\ out.kind = "view"
    /\ session.segments[1].narrative
          = _mock_payload(EstablishingCue, session.theme).narrative.v

\* ---------------------------------------------------------------- C16
\* The text a payload gives the continuity tracker: the stripped raw
\* visual prompt, a space, the stripped narrative, in lower case.
SceneText(payload) ==
    Lower(Strip(payload.visual_prompt.v) \o " " \o Strip(payload.narrative.v))

\* The texts of the turn that returns in this step: the fallback text
\* without capability, else the texts of the answers that lead from the
\* session in flight to the new session.
TurnTexts(cue, theme) ==
    IF client
    THEN {SceneText(payload) :
             payload \in {x \in {ResolvePayload(Responses[i], cue, theme) :
                                     i \in 1..Len(Responses)} :
                             PayloadUsable(x) /\ AdvanceFinish(session, cue, x) = session'}}
    ELSE {SceneText(_mock_payload(cue, theme))}

\* A turn of start_session / submit_cue returns its view in this step.
TurnReturns == out'.op \in TurnOps /\ out'.kind = "view"

\* The terms of a vocabulary that occur in the text, in vocabulary order.
Occurring(vocabulary, text) == SelectSeq(vocabulary, LAMBDA t : Contains(text, t))

\* The old subjects, then the occurring subject terms that are new, of
\* which the last three stay.
ExpectedSubjects(before, occurring) ==
    LastN(before \o SelectSeq(occurring, LAMBDA t : t \notin Elems(before)), 3)

\* The continuity subjects the turn started from.
SubjectsBefore ==
    IF out'.op = "start_session" \/ ~session.exists THEN <<>> ELSE session.current_subjects

\* C16: the subjects list never has more than 3 entries nor one entry
\* twice, and a turn leaves the last three of: the subjects before it,
\* followed by the subject terms of its text that were not among them,
\* in vocabulary order.  The entries dropped are the oldest.
C16_SubjectsBound ==
    [][session'.exists =>
          /\ Len(session'.current_subjects) <= 3
          /\ \A i, j \in 1..Len(session'.current_subjects) :
                session'.current_subjects[i] = session'.current_subjects[j] => i = j
          /\ TurnReturns =>
                /\ TurnTexts(TurnCue(out'), session'.theme) /= {}
                /\ \A text \in TurnTexts(TurnCue(out'), session'.theme) :
                      session'.current_subjects
                         = ExpectedSubjects(SubjectsBefore,
                                            Occurring(subject_indicators, text))]_vars

\* A turn found character while the list held hero, robot, alien: hero,
\* the oldest entry, was dropped and character stands last.
C16_Witness ==
    /\ session.exists
    /\ session.current_subjects = << "robot", "alien", "character" >>

\* ---------------------------------------------------------------- C17
\* The continuity location and style the turn started from.
SceneBefore ==
    IF out'.op = "start_session" \/ ~session.exists
    THEN [location |-> "", style |-> ""]
    ELSE [location |-> session.current_location, style |-> session.current_style]

\* Location and style after a turn with the given occurring terms.
ExpectedLocation(before, places) == IF places = <<>> THEN before ELSE places[1]

ExpectedStyle(before, styles) ==
    IF styles = <<>> THEN before
    ELSE IF Len(styles) = 1 THEN styles[1]
    ELSE styles[1] \o ", " \o styles[2]

\* C17: a returning turn whose text (raw visual prompt and narrative)
\* holds no location term leaves current_location as it was, else sets
\* it to the first location term of the vocabulary that occurs; it
\* leaves current_style as it was when no style word occurs, else sets
\* it to the first two occurring style words in vocabulary order.  No
\* other step within a session changes either.
C17_StickyScene ==
    [][session'.exists =>
          /\ TurnReturns =>
                \A text \in TurnTexts(TurnCue(out'), session'.theme) :
                   /\ session'.current_location
                         = ExpectedLocation(SceneBefore.location,
                                            Occurring(location_indicators, text))
                   /\ session'.current_style
                         = ExpectedStyle(SceneBefore.style, Occurring(style_words, text))
          /\ (~TurnReturns /\ session.exists /\ ~ReplacesSession) =>
                /\ session'.current_location = session.current_location
                /\ session'.current_style = session.current_style]_vars

\* A turn without location term and style word (narrative: the cue,
\* visual prompt: the base prompt of lego_flux) has returned after a
\* turn that set city and dark, foggy: both are still there.
C17_Witness ==
    /\ client /\ out.op = "submit_cue" /\ out.kind = "view"
    /\ session.theme.id = "lego_flux"
    /\ session.segments[Len(session.segments)].narrative = out.arg
    /\ session.current_location = "city"
    /\ session.current_style = "dark, foggy"

\* ---------------------------------------------------------------- C18
\* The payloads of the turn that returns in this step.
TurnPayloads(cue, theme) ==
    IF client
    THEN {x \in {ResolvePayload(Responses[i], cue, theme) : i \in 1..Len(Responses)} :
             PayloadUsable(x) /\ AdvanceFinish(session, cue, x) = session'}
    ELSE {_mock_payload(cue, theme)}

\* The prompt holds a cinematic keyword, has at least 100 characters and
\* holds 4k or 8k (letters in either case).
Compliant(prompt, low) ==
    /\ \E i \in 1..Len(cinematic_keywords) : Contains(low, cinematic_keywords[i])
    /\ Len(prompt) >= 100
    /\ (Contains(low, "4k") \/ Contains(low, "8k"))

\* The visual prompt stored for a raw prompt is the raw prompt cut at
\* 300 characters if the raw prompt is compliant.
KeptAsIs(prompt, stored) ==
    Compliant(prompt, Lower(prompt)) => stored = Prefix(prompt, 300)

\* C18: every stored visual prompt has at most 300 characters, and a
\* returning turn whose raw visual prompt is compliant stores that
\* prompt with nothing appended, cut at 300 characters.
C18_EnrichCompliant ==
    [][session'.exists =>
          /\ \A i \in 1..Len(session'.segments) :
                Len(session'.segments[i].visual_prompt) <= 300
          /\ Len(session'.last_visual_prompt) <= 300
          /\ TurnReturns =>
                \A payload \in TurnPayloads(TurnCue(out'), session'.theme) :
                   KeptAsIs(Strip(payload.visual_prompt.v), out'.view.visual_prompt)]_vars

\* Turns have returned on a compliant prompt of 121 characters, kept
\* whole, and on one of 333 characters, cut at 300.
C18_Witness ==
    /\ client /\ out.op = "submit_cue" /\ out.kind = "view"
    /\ Len(session.segments) = 2
    /\ session.segments[1].visual_prompt = CompliantPrompt
    /\ out.view.visual_prompt = Prefix(LongCompliantPrompt, 300)
    /\ Len(out.view.visual_prompt) < Len(LongCompliantPrompt)

\* ---------------------------------------------------------------- C19
\* The narratives joined with a blank line between them, trimmed.
BlankLineJoin(narratives) == Strip(Join("\n\n", narratives))

\* C19: the story_text of a returned view is the blank-line join of the
\* narratives of the retained segments.  As long as no more than
\* max_segments turns have completed (no turn has evicted), summary is
\* that same text; after an evicting turn summary is the narratives of
\* the retained segments but the last two, joined with single spaces.
C19_SummaryText ==
    session.exists =>
       /\ (out.op \in TurnOps /\ out.kind = "view") =>
             out.view.story_text = BlankLineJoin(Narratives(session.segments))
       /\ IF Len(RoleTexts(session.prompt_log, "model")) <= max_segments
          THEN session.summary = BlankLineJoin(Narratives(session.segments))
          ELSE session.summary
                  = Join(" ", Narratives(SubSeq(session.segments, 1,
                                                Len(session.segments) - 2)))

\* An evicting turn has returned: summary holds four narratives on one
\* line, the view's story_text all six.
C19_Witness ==
    /\ session.exists /\ out.op = "submit_cue" /\ out.kind = "view"
    /\ Len(RoleTexts(session.prompt_log, "model")) = max_segments + 1
    /\ session.summary /= out.view.story_text
    /\ Contains(out.view.story_text, session.segments[max_segments].narrative)
    /\ ~Contains(session.summary, session.segments[max_segments - 1].narrative)

\* ---------------------------------------------------------------- C20
\* C20: every call of start_session / submit_cue that has been issued
\* ends, with a view or an exception: whoever queues for the lock or
\* awaits the capability gets back to its caller, also after calls
\* that ended with UnknownTheme, NoActiveSession or AttributeError.
C20_CallsReturn ==
    \A p \in Callers : (pc[p] /= "idle") ~> (pc[p] = "idle")

\* A call has raised inside its turn while another caller was queued:
\* the lock is free for the queued caller.
C20_Witness ==
    /\ out.op \in TurnOps /\ out.kind = "AttributeError"
    /\ waiters /= <<>> /\ ~locked
    /\ \E p \in Callers : pc[p] = "wait"

====
